---- MODULE Spec2Model ----
(***************************************************************************)
(* Model of metricbeat/mb/module/wrapper.go: the Wrapper (Unit) that runs  *)
(* one worker goroutine per MetricSet, the eventReporter handed to the     *)
(* MetricSet code, and the process-wide reference-counted stats registry.  *)
(*                                                                         *)
(* The MetricSet implementations (collector code) and the caller of Start  *)
(* (who closes done and drains the output channel) are the environment:    *)
(* their choices are the \E-bound inputs of the actions.                   *)
(***************************************************************************)
EXTENDS Integers, Sequences, FiniteSets, TLC

(***************************************************************************)
(* Bounds of the model.                                                    *)
(***************************************************************************)
\* Number of metricSetWrappers over all Wrappers of the model.
NumWorkers == 2
\* Number of report calls (reporterV2.Event) of one behaviour: the MetricSet
\* code reports, and its Fetch returns an error to report, only while fewer
\* have been made.
MaxReports == 2
\* Last reading of the wall clock, in the configurations that follow time.
MaxTime == 3

(***************************************************************************)
(* Program constants.                                                      *)
(***************************************************************************)
\* out := make(chan beat.Event, 1)
OutCap == 1
\* stats.ref is a uint32, kept as two 16-bit halves <<high, low>>: Half is 2^16.
Half == 65536
U32(n) == <<n \div Half, n % Half>>
U32Inc(x) == IF x[2] + 1 < Half THEN <<x[1], x[2] + 1>> ELSE <<(x[1] + 1) % Half, 0>>
U32Dec(x) == IF x[2] > 0 THEN <<x[1], x[2] - 1>> ELSE <<(x[1] - 1) % Half, Half - 1>>

(***************************************************************************)
(* Names.  Both Wrappers are instances of the same module.  The first      *)
(* MetricSet of a Wrapper is named "a" and its other MetricSets (further   *)
(* hosts of one MetricSet) "b", so that stats keys are shared both across  *)
(* Wrappers and inside one Wrapper.                                        *)
(***************************************************************************)
Workers == 1..NumWorkers
Units == {"U1", "U2"}
moduleName(u) == "m"

\* The case of the type switch in run (and fetch) that the MetricSet takes;
\* "None" is the default case of run.
PushKinds == {"PushMetricSet", "PushMetricSetV2", "PushMetricSetV2WithContext"}
FetchKinds == {"ReportingMetricSet", "ReportingMetricSetV2",
               "ReportingMetricSetV2Error", "ReportingMetricSetV2WithContext"}
ErrKinds == {"ReportingMetricSetV2Error", "ReportingMetricSetV2WithContext"}
V1Kinds == {"PushMetricSet", "ReportingMetricSet"}
Kinds == PushKinds \cup FetchKinds \cup {"None"}

\* Module().Config().Period, validated positive by the module configuration.
Period == 10
\* The zero time.Duration: no period on the event.
NoPeriod == 0
\* The Wrapper option that sets maxStartDelay, when it is given.
StartDelay == 2

\* The zero time.Time.
ZeroTime == 0

\* The nil *stats.
Nil == <<>>

VARIABLES
    owner,       \* [Workers -> Units \cup {NoUnit}] the Wrapper of the metricSetWrapper
    kind,        \* [Workers -> Kinds]   the interface the MetricSet implements
    closer,      \* [Workers -> BOOLEAN] the MetricSet implements mb.Closer
    maxStartDelay, \* [Units -> Nat]     Wrapper.maxStartDelay
    timed,       \* BOOLEAN              the configuration follows the wall clock
    now,         \* Nat                  the wall clock: what time.Now() returns
    pc,          \* [Workers -> STRING]  where the worker goroutine (or its wrapper) is
    call,        \* [Workers -> STRING]  where reporterV2.Event is: idle, write, wrote
    pending,     \* [Workers -> event]   the beat.Event Event is writing
    periodic,    \* [Workers -> BOOLEAN] metricSetWrapper.periodic
    elapsed,     \* [Workers -> BOOLEAN] the time.After timer of run has fired
    tstart,      \* [Workers -> BOOLEAN] eventReporter.start is non-zero
    start,       \* [Workers -> Nat]     eventReporter.start
    handle,      \* [Workers -> ObjIds \cup {Nil}] metricSetWrapper.stats
    fetches,     \* [Keys -> ObjIds \cup {Nil}] the map fetches
    heap,        \* [ObjIds -> stats] the stats objects
    done,        \* [Units -> BOOLEAN] the done channel is closed
    sup,         \* [Units -> STRING] the goroutine that closes out: none, wait, done
    out,         \* [Units -> Seq(event)] the buffer of the out channel
    closed,      \* [Units -> Nat] number of close(out) executed
    wg,          \* [Units -> Int] the WaitGroup counter
    crashed,     \* an unrecovered panic ended the process
    \* history variables
    ended,       \* [Workers -> STRING] how run ended
    closeCalls,  \* [Workers -> Nat] calls of closer.Close()
    nrun,        \* [Workers -> Nat] calls of ms.Run
    reported,    \* [Workers -> Nat] calls of reporterV2.Event
    nreports,    \* calls of reporterV2.Event of all workers
    nStarting,   \* [Workers -> Nat] UpdateStatus(Starting) notifications
    cycleNotes,  \* [Workers -> Seq(STRING)] UpdateStatus calls of the current cycle
    lastErr,     \* [Workers -> STRING] what the last finished fetch returned
    cyc          \* [Workers -> record] increments and reports of the current cycle

cfgVars == <<owner, kind, closer, maxStartDelay, timed>>
locVars == <<periodic, elapsed, tstart, start>>
callVars == <<call, pending>>
cycleVars == <<cycleNotes, lastErr, cyc>>
histVars == <<ended, closeCalls, nrun, nStarting>>
statsVars == <<handle, fetches, heap>>
unitVars == <<done, sup, out, closed, wg>>
vars == <<cfgVars, now, pc, locVars, callVars, cycleVars, histVars, reported,
          nreports, statsVars, unitVars, crashed>>

metricSets(u) == {w \in Workers : owner[w] = u}
First(S) == CHOOSE w \in S : \A v \in S : w <= v
msName(w) == IF w = First(metricSets(owner[w])) THEN "a" ELSE "b"

(***************************************************************************)
(* The stats registry: getMetricSetStats and releaseStats.                 *)
(***************************************************************************)
\* key := fmt.Sprintf("metricbeat.%s.%s", module, name)
StatsKey(module, name) == <<"metricbeat", module, name>>
Keys == {StatsKey(moduleName(u), n) : u \in Units, n \in {"a", "b"}}
keyOf(w) == StatsKey(moduleName(owner[w]), msName(w))

\* The memory of an object nothing points to.
FreeObj == [key |-> <<>>, ref |-> U32(0), success |-> 0, failures |-> 0, events |-> 0]
\* &stats{key: key, ref: 1, success: NewInt, failures: NewInt, events: NewInt}
NewStats(key) == [key |-> key, ref |-> U32(1), success |-> 0, failures |-> 0, events |-> 0]

\* The addresses of stats objects: the key a stats was made for, and a number.
ObjIds == Keys \X (1..(NumWorkers + 1))

Reachable(f, hd, o) == (\E k \in Keys : f[k] = o) \/ (\E w \in Workers : hd[w] = o)
\* The allocator: an object nothing refers to.
Fresh(f, hd, key) ==
    CHOOSE o \in ObjIds :
        /\ o[1] = key
        /\ ~Reachable(f, hd, o)
        /\ \A p \in ObjIds : (p[1] = key /\ ~Reachable(f, hd, p)) => o[2] <= p[2]
\* Objects nothing refers to any more are collected.
Collect(f, hd, h) == [o \in ObjIds |-> IF Reachable(f, hd, o) THEN h[o] ELSE FreeObj]

\* Faulty variant of getMetricSetStats: a new stats whatever the map holds.
getMetricSetStatsNew(f, hd, h, key) ==
    LET s == Fresh(f, hd, key)
    IN [f |-> [f EXCEPT ![key] = s],
        h |-> [h EXCEPT ![s] = NewStats(key)],
        s |-> s]

\* getMetricSetStats, under fetchesLock: the new map, the new objects and the
\* pointer returned.
getMetricSetStats(f, hd, h, key) ==
    IF f[key] # Nil
    THEN [f |-> f,
          h |-> [h EXCEPT ![f[key]].ref = U32Inc(@)],
          s |-> f[key]]
    ELSE LET s == Fresh(f, hd, key)
         IN [f |-> [f EXCEPT ![key] = s],
             h |-> [h EXCEPT ![s] = NewStats(key)],
             s |-> s]

\* Faulty variant of releaseStats: the entry is deleted whatever the count.
releaseStatsAlways(f, h, s) ==
    [f |-> [f EXCEPT ![h[s].key] = Nil], h |-> [h EXCEPT ![s].ref = U32Dec(@)]]

\* releaseStats(s), under fetchesLock: the new map and the new objects.
releaseStats(f, h, s) ==
    LET ref == U32Dec(h[s].ref)
        h1 == [h EXCEPT ![s].ref = ref]
    IN IF ref # U32(0)
       THEN [f |-> f, h |-> h1]
       ELSE [f |-> [f EXCEPT ![h[s].key] = Nil], h |-> h1]

(***************************************************************************)
(* Initial states: nothing constructed yet.  The configuration is chosen   *)
(* here: the owner and the interface of every MetricSet, whether it is an  *)
(* mb.Closer, and the start delay option of the Wrappers.                  *)
(***************************************************************************)
NoEvent == [src |-> 0, error |-> FALSE, period |-> NoPeriod,
            ts |-> ZeroTime, given |-> ZeroTime, at |-> ZeroTime]
NoCycle == [s |-> 0, f |-> 0, evOk |-> 0, evErr |-> 0]

\* The configurations of the model.  A worker owned by no Wrapper (NoUnit) is not
\* part of the configuration.
\*  - Solo: worker 1 alone, with every case of the type switch, with and
\*    without Close, with and without the start delay option.
\*  - Group: all workers in Wrapper 1, which has the start delay option.
\*  - Split: as Group without start delay, the last worker being the only
\*    MetricSet of Wrapper 2.
\* In Group and Split worker 1 is an mb.Closer, worker 2 a
\* ReportingMetricSetV2Error without Close, and further workers implement no
\* interface.
NoUnit == "none"

GroupKind(w, k1) ==
    IF w = 1 THEN k1 ELSE IF w = 2 THEN "ReportingMetricSetV2Error" ELSE "None"

Solo ==
    {c \in [owner : [Workers -> Units \cup {NoUnit}], kind : [Workers -> Kinds],
            closer : [Workers -> BOOLEAN], delay : {0, StartDelay}] :
        /\ \A w \in Workers : c.owner[w] = (IF w = 1 THEN "U1" ELSE NoUnit)
        /\ \A w \in Workers \ {1} : c.kind[w] = "None" /\ ~c.closer[w]}

Group ==
    {c \in [owner : [Workers -> {"U1"}], kind : [Workers -> Kinds],
            closer : {[w \in Workers |-> w = 1]}, delay : {StartDelay}] :
        /\ c.kind[1] \in {"PushMetricSet", "ReportingMetricSetV2WithContext", "None"}
        /\ \A w \in Workers : c.kind[w] = GroupKind(w, c.kind[1])}

Split ==
    {c \in [owner : [Workers -> Units], kind : [Workers -> Kinds],
            closer : {[w \in Workers |-> w = 1]}, delay : {0}] :
        /\ \A w \in Workers : c.owner[w] = (IF w = NumWorkers THEN "U2" ELSE "U1")
        /\ c.kind[1] = "PushMetricSetV2"
        /\ \A w \in Workers : c.kind[w] = GroupKind(w, c.kind[1])}

\* Time is followed where a worker is alone, starts without delay and has
\* no Close.
Timed == {c \in Solo : c.delay = 0 /\ \A w \in Workers : ~c.closer[w]}

Configs == Solo \cup (IF NumWorkers > 1 THEN Group \cup Split ELSE {})

Init ==
    /\ \E c \in Configs :
          /\ owner = c.owner
          /\ kind = c.kind
          /\ closer = c.closer
          /\ maxStartDelay = [u \in Units |-> c.delay]
          /\ timed = (c \in Timed)
    /\ pc = [w \in Workers |-> "new"]
    /\ call = [w \in Workers |-> "idle"]
    /\ pending = [w \in Workers |-> NoEvent]
    /\ periodic = [w \in Workers |-> FALSE]
    /\ elapsed = [w \in Workers |-> FALSE]
    /\ tstart = [w \in Workers |-> FALSE]
    /\ start = [w \in Workers |-> ZeroTime]
    /\ now = 1
    /\ handle = [w \in Workers |-> Nil]
    /\ fetches = [k \in Keys |-> Nil]
    /\ heap = [o \in ObjIds |-> FreeObj]
    /\ done = [u \in Units |-> FALSE]
    /\ sup = [u \in Units |-> "none"]
    /\ out = [u \in Units |-> <<>>]
    /\ closed = [u \in Units |-> 0]
    /\ wg = [u \in Units |-> 0]
    /\ crashed = FALSE
    /\ ended = [w \in Workers |-> "no"]
    /\ closeCalls = [w \in Workers |-> 0]
    /\ nrun = [w \in Workers |-> 0]
    /\ reported = [w \in Workers |-> 0]
    /\ nreports = 0
    /\ nStarting = [w \in Workers |-> 0]
    /\ cycleNotes = [w \in Workers |-> <<>>]
    /\ lastErr = [w \in Workers |-> "none"]
    /\ cyc = [w \in Workers |-> NoCycle]

\* An unrecovered panic ends the process: nothing runs after it.
Running == ~crashed

(***************************************************************************)
(* createWrapper: one iteration of its loop over metricSets, which takes   *)
(* the stats of the MetricSet (fetchesLock is held inside the call only).  *)
(***************************************************************************)
createWrapper(w) ==
    /\ Running
    /\ owner[w] \in Units
    /\ pc[w] = "new"
    /\ \A v \in metricSets(owner[w]) : v < w => pc[v] # "new"
    /\ LET r == getMetricSetStats(fetches, handle, heap, keyOf(w))
       IN /\ fetches' = r.f
          /\ heap' = r.h
          /\ handle' = [handle EXCEPT ![w] = r.s]
    /\ pc' = [pc EXCEPT ![w] = "created"]
    /\ UNCHANGED <<cfgVars, now, locVars, callVars, cycleVars, histVars, reported, nreports,
                   unitVars, crashed>>

(***************************************************************************)
(* Wrapper.Start: makes out, adds the workers to the WaitGroup, starts one *)
(* goroutine per metricSetWrapper and the goroutine that closes out.       *)
(***************************************************************************)
\* Faulty variant of WaitGroupAdd: wg.Add(1) for the whole Wrapper.
WaitGroupAddOne(u) == IF metricSets(u) = {} THEN 0 ELSE 1

\* wg.Add(len(mw.metricSets))
WaitGroupAdd(u) == Cardinality(metricSets(u))

Start(u) ==
    /\ Running
    /\ sup[u] = "none"
    /\ metricSets(u) # {}
    /\ \A w \in metricSets(u) : pc[w] = "created"
    /\ out' = [out EXCEPT ![u] = <<>>]
    /\ wg' = [wg EXCEPT ![u] = @ + WaitGroupAdd(u)]
    /\ pc' = [w \in Workers |-> IF owner[w] = u THEN "spawned" ELSE pc[w]]
    /\ sup' = [sup EXCEPT ![u] = "wait"]
    /\ UNCHANGED <<cfgVars, now, locVars, callVars, cycleVars, histVars, reported, nreports,
                   statsVars, done, closed, crashed>>

\* Faulty variant of Supervisor: close(out) without wg.Wait().
SupervisorNoWait(u) ==
    /\ Running
    /\ sup[u] = "wait"
    /\ sup' = [sup EXCEPT ![u] = "done"]
    /\ closed' = [closed EXCEPT ![u] = @ + 1]
    /\ crashed' = (closed[u] > 0)
    /\ UNCHANGED <<cfgVars, now, pc, locVars, callVars, cycleVars, histVars, reported, nreports,
                   statsVars, done, out, wg>>

\* wg.Wait(); close(out).  Closing a closed channel panics, in a goroutine
\* that recovers nothing.
Supervisor(u) ==
    /\ Running
    /\ sup[u] = "wait"
    /\ wg[u] = 0
    /\ sup' = [sup EXCEPT ![u] = "done"]
    /\ closed' = [closed EXCEPT ![u] = @ + 1]
    /\ crashed' = (closed[u] > 0)
    /\ UNCHANGED <<cfgVars, now, pc, locVars, callVars, cycleVars, histVars, reported, nreports,
                   statsVars, done, out, wg>>

(***************************************************************************)
(* The end of run.  The goroutine's deferred msw.close() runs as run       *)
(* returns; what belongs to the last cycle and the last report is dropped. *)
(***************************************************************************)
mswClose(w) == IF closer[w] THEN 1 ELSE 0

RunReturn(w, how) ==
    /\ pc' = [pc EXCEPT ![w] = "closed"]
    /\ call' = [call EXCEPT ![w] = "idle"]
    /\ pending' = [pending EXCEPT ![w] = NoEvent]
    /\ cycleNotes' = [cycleNotes EXCEPT ![w] = <<>>]
    /\ lastErr' = [lastErr EXCEPT ![w] = "none"]
    /\ cyc' = [cyc EXCEPT ![w] = NoCycle]
    /\ ended' = [ended EXCEPT ![w] = how]
    /\ closeCalls' = [closeCalls EXCEPT ![w] = @ + mswClose(w)]

\* Faulty variant of RunPanic: msw.close() called after run instead of
\* deferred, so that a panic passes it by.
RunPanicPastClose(w) ==
    /\ pc' = [pc EXCEPT ![w] = "closed"]
    /\ call' = [call EXCEPT ![w] = "idle"]
    /\ pending' = [pending EXCEPT ![w] = NoEvent]
    /\ cycleNotes' = [cycleNotes EXCEPT ![w] = <<>>]
    /\ lastErr' = [lastErr EXCEPT ![w] = "none"]
    /\ cyc' = [cyc EXCEPT ![w] = NoCycle]
    /\ ended' = [ended EXCEPT ![w] = "panic"]
    /\ UNCHANGED <<closeCalls, crashed>>

\* Faulty variant of RunRecovers: run without the deferred logp.Recover.
RunNoRecover == FALSE

\* run defers logp.Recover: a panic below run ends run like a return.
RunRecovers == TRUE

RunPanic(w) ==
    IF RunRecovers
    THEN RunReturn(w, "panic") /\ UNCHANGED crashed
    ELSE /\ crashed' = TRUE
         /\ UNCHANGED <<pc, callVars, cycleVars, ended, closeCalls>>

(***************************************************************************)
(* msw.fetch up to the call of the MetricSet's Fetch: StartFetchTimer.     *)
(***************************************************************************)
EnterFetch(w) ==
    /\ pc' = [pc EXCEPT ![w] = "fetch"]
    /\ tstart' = [tstart EXCEPT ![w] = TRUE]
    /\ start' = [start EXCEPT ![w] = now]
    /\ cycleNotes' = [cycleNotes EXCEPT ![w] = <<>>]
    /\ lastErr' = [lastErr EXCEPT ![w] = "none"]
    /\ cyc' = [cyc EXCEPT ![w] = NoCycle]

(***************************************************************************)
(* The type switch of run (lines 203-216), after the start delay.          *)
(***************************************************************************)
\* Faulty variant of Dispatch: the default case goes to
\* startPeriodicFetching too.
DispatchDefaultFetches(w) ==
    IF kind[w] \in PushKinds
    THEN /\ pc' = [pc EXCEPT ![w] = "push"]
         /\ nrun' = [nrun EXCEPT ![w] = @ + 1]
         /\ UNCHANGED <<periodic, tstart, start, callVars, cycleVars, ended, closeCalls>>
    ELSE /\ periodic' = [periodic EXCEPT ![w] = TRUE]
         /\ EnterFetch(w)
         /\ UNCHANGED <<nrun, callVars, ended, closeCalls>>

\* Faulty variant of Dispatch: startPeriodicFetching without its immediate
\* fetch, waiting for the first tick.
DispatchWaitsForTick(w) ==
    IF kind[w] \in PushKinds
    THEN /\ pc' = [pc EXCEPT ![w] = "push"]
         /\ nrun' = [nrun EXCEPT ![w] = @ + 1]
         /\ UNCHANGED <<periodic, tstart, start, callVars, cycleVars, ended, closeCalls>>
    ELSE IF kind[w] \in FetchKinds
    THEN /\ periodic' = [periodic EXCEPT ![w] = TRUE]
         /\ pc' = [pc EXCEPT ![w] = "loop"]
         /\ UNCHANGED <<nrun, tstart, start, callVars, cycleVars, ended, closeCalls>>
    ELSE /\ RunReturn(w, "none")
         /\ UNCHANGED <<nrun, periodic, tstart, start>>

Dispatch(w) ==
    IF kind[w] \in PushKinds
    THEN /\ pc' = [pc EXCEPT ![w] = "push"]
         /\ nrun' = [nrun EXCEPT ![w] = @ + 1]
         /\ UNCHANGED <<periodic, tstart, start, callVars, cycleVars, ended, closeCalls>>
    ELSE IF kind[w] \in FetchKinds
    THEN \* startPeriodicFetching: periodic = true, then the immediate fetch
         /\ periodic' = [periodic EXCEPT ![w] = TRUE]
         /\ EnterFetch(w)
         /\ UNCHANGED <<nrun, callVars, ended, closeCalls>>
    ELSE \* default: logp.Err, and run returns
         /\ RunReturn(w, "none")
         /\ UNCHANGED <<nrun, periodic, tstart, start>>

(***************************************************************************)
(* The worker goroutine of Start up to run's first blocking point:         *)
(* UpdateStatus(Starting), then run, which either waits in the select on   *)
(* done and time.After(delay) or goes on to the type switch.               *)
(***************************************************************************)
WorkerBegin(w) ==
    /\ Running
    /\ pc[w] = "spawned"
    /\ nStarting' = [nStarting EXCEPT ![w] = @ + 1]
    /\ IF maxStartDelay[owner[w]] > 0
       THEN \E delay \in 0..(maxStartDelay[owner[w]] - 1) :
               /\ pc' = [pc EXCEPT ![w] = "delay"]
               /\ elapsed' = [elapsed EXCEPT ![w] = (delay = 0)]
               /\ UNCHANGED <<periodic, tstart, start, callVars, cycleVars, ended,
                              closeCalls, nrun>>
       ELSE Dispatch(w) /\ UNCHANGED elapsed
    /\ UNCHANGED <<cfgVars, now, reported, nreports, statsVars, unitVars, crashed>>

\* The timer of time.After fires.  A select that finds done closed and the
\* timer not fired takes the done case, so the timer matters no more.
TimerFire(w) ==
    /\ Running
    /\ pc[w] = "delay"
    /\ ~elapsed[w]
    /\ ~done[owner[w]]
    /\ elapsed' = [elapsed EXCEPT ![w] = TRUE]
    /\ UNCHANGED <<cfgVars, now, pc, periodic, tstart, start, callVars, cycleVars, histVars,
                   reported, nreports, statsVars, unitVars, crashed>>

\* Faulty variant of DelayDone: the done case without its return, so that
\* run goes on to the type switch.
DelayDoneFallsThrough(w) ==
    /\ Running
    /\ pc[w] = "delay"
    /\ done[owner[w]]
    /\ Dispatch(w)
    /\ UNCHANGED <<cfgVars, now, elapsed, nStarting, reported, nreports, statsVars, unitVars,
                   crashed>>

\* case <-done: return
DelayDone(w) ==
    /\ Running
    /\ pc[w] = "delay"
    /\ done[owner[w]]
    /\ RunReturn(w, "delay")
    /\ UNCHANGED <<cfgVars, now, locVars, nrun, nStarting, reported, nreports, statsVars,
                   unitVars, crashed>>

\* case <-time.After(delay):
DelayElapsed(w) ==
    /\ Running
    /\ pc[w] = "delay"
    /\ elapsed[w]
    /\ Dispatch(w)
    /\ UNCHANGED <<cfgVars, now, elapsed, nStarting, reported, nreports, statsVars, unitVars,
                   crashed>>

(***************************************************************************)
(* reporterV2.Event, lines 365-394: the event is completed, success or     *)
(* failures is incremented, and the call goes on to writeEvent.            *)
(***************************************************************************)
\* Faulty variant of EventPeriod: the period is set whatever periodic is.
EventPeriodAlways(w, given) == Period

\* if r.msw.periodic { event.Period = r.msw.Module().Config().Period }
EventPeriod(w, given) == IF periodic[w] THEN Period ELSE given

\* Faulty variant of CountEvent: the two counters are exchanged.
CountEventSwapped(st, err) ==
    IF err THEN [st EXCEPT !.success = @ + 1] ELSE [st EXCEPT !.failures = @ + 1]

\* Faulty variant of CountEvent: neither counter is touched.
CountEventSkipped(st, err) == st

\* if event.Error == nil { success.Add(1) } else { failures.Add(1) }
CountEvent(st, err) ==
    IF ~err THEN [st EXCEPT !.success = @ + 1] ELSE [st EXCEPT !.failures = @ + 1]

\* Faulty variant of EventTimestamp: the two assignments are exchanged.
EventTimestampSwapped(given, st, t) ==
    IF given # ZeroTime THEN given ELSE IF st # ZeroTime THEN t ELSE st

\* if event.Timestamp.IsZero() { if !r.start.IsZero() { event.Timestamp =
\* r.start } else { event.Timestamp = time.Now().UTC() } }
EventTimestamp(given, st, t) ==
    IF given # ZeroTime THEN given ELSE IF st # ZeroTime THEN st ELSE t

\* The Timestamp values of the mb.Event given to Event: none, or a time up
\* to the present where time is followed.
GivenTimes == {ZeroTime} \cup (IF timed THEN 1..now ELSE {})

\* The mb.Event given to Event has no Period: mb.Event{Error: err} and
\* TransformMapStrToEvent set none, and MetricSet code leaves the field alone.
\* given is its Timestamp; at, the time of the call, is kept for the record.
Event(w, err, given, byCollector) ==
    /\ heap' = [heap EXCEPT ![handle[w]] = CountEvent(@, err)]
    /\ pending' = [pending EXCEPT ![w] =
                      [src |-> w, error |-> err, period |-> EventPeriod(w, NoPeriod),
                       ts |-> EventTimestamp(given, start[w], now),
                       given |-> given, at |-> now]]
    /\ call' = [call EXCEPT ![w] = "write"]
    /\ reported' = [reported EXCEPT ![w] = @ + 1]
    /\ nreports' = nreports + 1
    /\ cyc' = [cyc EXCEPT ![w] =
                  IF ~periodic[w] THEN @
                  ELSE [s |-> @.s + (heap'[handle[w]].success - heap[handle[w]].success),
                        f |-> @.f + (heap'[handle[w]].failures - heap[handle[w]].failures),
                        evOk |-> @.evOk + (IF byCollector /\ ~err THEN 1 ELSE 0),
                        evErr |-> @.evErr + (IF byCollector /\ err THEN 1 ELSE 0)]]

(***************************************************************************)
(* writeEvent: select { case <-done: return false; case out <- event:      *)
(* return true }.  A case can be taken when it is ready; when both are,    *)
(* the select takes either.  A send on a closed channel is ready, and      *)
(* panics.                                                                 *)
(***************************************************************************)
\* Faulty variant of EventsPublished: events.Add(1) whatever writeEvent returned.
EventsPublishedAlways(st, accepted) == [st EXCEPT !.events = @ + 1]

\* Faulty variant of writeEventDone: a select without the done case.
writeEventNoDone(w) == FALSE

\* Faulty variant of writeEventSend: a send that is ready whatever out holds.
writeEventSendAlways(w) == TRUE

\* if !writeEvent(...) { return false }; r.msw.stats.events.Add(1)
EventsPublished(st, accepted) ==
    IF accepted THEN [st EXCEPT !.events = @ + 1] ELSE st

\* case <-done is ready
writeEventDone(w) == done[owner[w]]
\* case out <- event is ready
writeEventSend(w) == Len(out[owner[w]]) < OutCap \/ closed[owner[w]] > 0

\* case out <- event: return true
WriteSend(w) ==
    /\ Running
    /\ call[w] = "write"
    /\ writeEventSend(w)
    /\ IF closed[owner[w]] > 0
       THEN /\ RunPanic(w)
            /\ UNCHANGED out
       ELSE /\ out' = [out EXCEPT ![owner[w]] = Append(@, pending[w])]
            /\ call' = [call EXCEPT ![w] = "wrote"]
            /\ UNCHANGED <<pc, pending, cycleVars, ended, closeCalls, crashed>>
    /\ UNCHANGED <<cfgVars, now, locVars, nrun, nStarting, reported, nreports, statsVars,
                   done, sup, closed, wg>>

\* case <-done: return false, and Event returns false
WriteAbandon(w) ==
    /\ Running
    /\ call[w] = "write"
    /\ writeEventDone(w)
    /\ call' = [call EXCEPT ![w] = "idle"]
    /\ pending' = [pending EXCEPT ![w] = NoEvent]
    /\ heap' = [heap EXCEPT ![handle[w]] = EventsPublished(@, FALSE)]
    /\ UNCHANGED <<cfgVars, now, pc, locVars, cycleVars, histVars, reported, nreports,
                   handle, fetches, unitVars, crashed>>

\* r.msw.stats.events.Add(1); return true
EventsAdd(w) ==
    /\ Running
    /\ call[w] = "wrote"
    /\ heap' = [heap EXCEPT ![handle[w]] = EventsPublished(@, TRUE)]
    /\ call' = [call EXCEPT ![w] = "idle"]
    /\ pending' = [pending EXCEPT ![w] = NoEvent]
    /\ UNCHANGED <<cfgVars, now, pc, locVars, cycleVars, histVars, reported, nreports, handle,
                   fetches, unitVars, crashed>>

(***************************************************************************)
(* The MetricSet code, inside ms.Run or Fetch.                             *)
(***************************************************************************)
\* Report calls are left to the environment.
CanReport == nreports < MaxReports

InCollector(w) == pc[w] \in {"push", "fetch"} /\ call[w] = "idle"

\* The MetricSet reports an event or an error: reporterV2.Event, or
\* reporterV1.ErrorWith with an event or an error.
CollectorReport(w) ==
    /\ Running
    /\ InCollector(w)
    /\ CanReport
    /\ \E err \in BOOLEAN : \E given \in GivenTimes : Event(w, err, given, TRUE)
    /\ UNCHANGED <<cfgVars, now, pc, locVars, cycleNotes, lastErr, histVars, handle,
                   fetches, unitVars, crashed>>

\* reporterV1.ErrorWith(nil, nil): "Skip nil events without error".
CollectorSkip(w) ==
    /\ Running
    /\ InCollector(w)
    /\ kind[w] \in V1Kinds
    /\ UNCHANGED vars

\* The MetricSet code panics.
CollectorPanic(w) ==
    /\ Running
    /\ InCollector(w)
    /\ RunPanic(w)
    /\ UNCHANGED <<cfgVars, now, locVars, nrun, nStarting, reported, nreports, statsVars, unitVars>>

\* ms.Run returns.
PushReturn(w) ==
    /\ Running
    /\ pc[w] = "push"
    /\ call[w] = "idle"
    /\ RunReturn(w, "push")
    /\ UNCHANGED <<cfgVars, now, locVars, nrun, nStarting, reported, nreports, statsVars,
                   unitVars, crashed>>

(***************************************************************************)
(* msw.fetch after Fetch has returned (lines 249-272).  Only the Fetch of  *)
(* ReportingMetricSetV2Error and ReportingMetricSetV2WithContext returns   *)
(* an error; it is reported with reporter.V2().Error(err) before the       *)
(* status is updated.                                                      *)
(***************************************************************************)
\* Faulty variant of StatusAfterFetch: every case of the switch updates the status.
StatusAfterFetchAll(k, err) == IF err THEN <<"degraded">> ELSE <<"running">>

\* The UpdateStatus calls of msw.fetch once Fetch has returned.
StatusAfterFetch(k, err) ==
    IF k \in ErrKinds THEN (IF err THEN <<"degraded">> ELSE <<"running">>) ELSE <<>>

FetchReturn(w) ==
    /\ Running
    /\ pc[w] = "fetch"
    /\ call[w] = "idle"
    /\ \E err \in BOOLEAN :
          /\ err => (kind[w] \in ErrKinds /\ CanReport)
          /\ IF err
             THEN /\ Event(w, TRUE, ZeroTime, FALSE)
                  /\ pc' = [pc EXCEPT ![w] = "fetcherr"]
                  /\ lastErr' = [lastErr EXCEPT ![w] = "err"]
                  /\ UNCHANGED cycleNotes
             ELSE /\ pc' = [pc EXCEPT ![w] = "loop"]
                  /\ lastErr' = [lastErr EXCEPT ![w] =
                                    IF kind[w] \in ErrKinds THEN "nil" ELSE "void"]
                  /\ cycleNotes' = [cycleNotes EXCEPT ![w] =
                                    @ \o StatusAfterFetch(kind[w], FALSE)]
                  /\ UNCHANGED <<call, pending, heap, reported, nreports, cyc>>
    /\ UNCHANGED <<cfgVars, now, locVars, histVars, handle, fetches, unitVars, crashed>>

\* Faulty variant of Degrade: msw.fetch gives the error up to run, which
\* returns.
DegradeAborts(w) ==
    /\ Running
    /\ pc[w] = "fetcherr"
    /\ call[w] = "idle"
    /\ RunReturn(w, "loop")
    /\ UNCHANGED <<cfgVars, now, locVars, nrun, nStarting, reported, nreports, statsVars,
                   unitVars, crashed>>

\* msw.module.UpdateStatus(status.Degraded, ...) after Error(err) returned
Degrade(w) ==
    /\ Running
    /\ pc[w] = "fetcherr"
    /\ call[w] = "idle"
    /\ pc' = [pc EXCEPT ![w] = "loop"]
    /\ cycleNotes' = [cycleNotes EXCEPT ![w] = @ \o StatusAfterFetch(kind[w], TRUE)]
    /\ UNCHANGED <<cfgVars, now, locVars, callVars, lastErr, cyc, histVars,
                   reported, nreports, statsVars, unitVars, crashed>>

(***************************************************************************)
(* The loop of startPeriodicFetching: select on done and the ticker.       *)
(***************************************************************************)
\* case <-reporter.V2().Done(): return
LoopDone(w) ==
    /\ Running
    /\ pc[w] = "loop"
    /\ done[owner[w]]
    /\ RunReturn(w, "loop")
    /\ UNCHANGED <<cfgVars, now, locVars, nrun, nStarting, reported, nreports, statsVars,
                   unitVars, crashed>>

\* case <-t.C: msw.fetch(ctx, reporter)
Tick(w) ==
    /\ Running
    /\ pc[w] = "loop"
    /\ EnterFetch(w)
    /\ UNCHANGED <<cfgVars, now, periodic, elapsed, callVars, histVars, reported, nreports,
                   statsVars, unitVars, crashed>>

(***************************************************************************)
(* The rest of the goroutine's deferred calls, after msw.close():          *)
(* wg.Done(), then releaseStats(msw.stats) and registry.Remove.            *)
(***************************************************************************)
WgDone(w) ==
    /\ Running
    /\ pc[w] = "closed"
    /\ wg' = [wg EXCEPT ![owner[w]] = @ - 1]
    /\ pc' = [pc EXCEPT ![w] = "wgdone"]
    /\ UNCHANGED <<cfgVars, now, locVars, callVars, cycleVars, histVars, reported, nreports,
                   statsVars, done, sup, out, closed, crashed>>

ReleaseStats(w) ==
    /\ Running
    /\ pc[w] = "wgdone"
    /\ LET r == releaseStats(fetches, heap, handle[w])
           hd == [handle EXCEPT ![w] = Nil]
       IN /\ fetches' = r.f
          /\ handle' = hd
          /\ heap' = Collect(r.f, hd, r.h)
    /\ pc' = [pc EXCEPT ![w] = "exit"]
    \* the goroutine is gone: its history is dropped
    /\ ended' = [ended EXCEPT ![w] = "no"]
    /\ reported' = [reported EXCEPT ![w] = 0]
    /\ UNCHANGED <<cfgVars, now, locVars, callVars, cycleVars, closeCalls, nrun, nStarting,
                   nreports, unitVars, crashed>>

(***************************************************************************)
(* channelContext: the context.Context that run builds on the done channel *)
(* of the worker's Wrapper and hands to the MetricSet.  A channel is named  *)
(* by its Wrapper; done[u] says that it is closed.                         *)
(***************************************************************************)
channelContext(w) == [done |-> owner[w]]

\* Deadline(): the zero time and false.
channelContextDeadline(r) == [deadline |-> ZeroTime, ok |-> FALSE]

\* Done(): the channel of the context.
channelContextDone(r) == r.done

\* Faulty variant of channelContextErr: no read of the channel.
channelContextErrNil(r) == "nil"

\* Err(): a select on the channel with a default case.
channelContextErr(r) == IF done[r.done] THEN "context.Canceled" ELSE "nil"

\* The worker is in a case of run's type switch that builds a context.
HasContext(w) ==
    /\ owner[w] \in Units
    /\ kind[w] \in {"PushMetricSetV2WithContext"} \cup FetchKinds
    /\ pc[w] \in {"push", "fetch", "fetcherr", "loop"}

(***************************************************************************)
(* The caller of Start: closes done (once), receives from out.  Start does *)
(* not read done, so a done closed before Start is a done closed right     *)
(* after it.                                                               *)
(***************************************************************************)
CloseDone(u) ==
    /\ Running
    /\ sup[u] # "none"
    /\ ~done[u]
    /\ done' = [done EXCEPT ![u] = TRUE]
    /\ UNCHANGED <<cfgVars, now, pc, locVars, callVars, cycleVars, histVars, reported, nreports,
                   statsVars, sup, out, closed, wg, crashed>>

Consume(u) ==
    /\ Running
    /\ Len(out[u]) > 0
    /\ out' = [out EXCEPT ![u] = Tail(@)]
    /\ UNCHANGED <<cfgVars, now, pc, locVars, callVars, cycleVars, histVars, reported, nreports,
                   statsVars, done, sup, closed, wg, crashed>>

(***************************************************************************)
(* Time passes, where it is followed.                                      *)
(***************************************************************************)
ClockTick ==
    /\ Running
    /\ timed
    /\ now < MaxTime
    /\ now' = now + 1
    /\ UNCHANGED <<cfgVars, pc, locVars, callVars, cycleVars, histVars, reported, nreports,
                   statsVars, unitVars, crashed>>

Next ==
    \/ \E w \in Workers : createWrapper(w)
    \/ \E u \in Units : Start(u)
    \/ \E u \in Units : Supervisor(u)
    \/ \E w \in Workers : WorkerBegin(w)
    \/ \E w \in Workers : TimerFire(w)
    \/ \E w \in Workers : DelayDone(w)
    \/ \E w \in Workers : DelayElapsed(w)
    \/ \E w \in Workers : CollectorReport(w)
    \/ \E w \in Workers : CollectorSkip(w)
    \/ \E w \in Workers : CollectorPanic(w)
    \/ \E w \in Workers : PushReturn(w)
    \/ \E w \in Workers : FetchReturn(w)
    \/ \E w \in Workers : Degrade(w)
    \/ \E w \in Workers : WriteSend(w)
    \/ \E w \in Workers : WriteAbandon(w)
    \/ \E w \in Workers : EventsAdd(w)
    \/ \E w \in Workers : LoopDone(w)
    \/ \E w \in Workers : Tick(w)
    \/ \E w \in Workers : WgDone(w)
    \/ \E w \in Workers : ReleaseStats(w)
    \/ \E u \in Units : CloseDone(u)
    \/ \E u \in Units : Consume(u)
    \/ ClockTick

Spec == Init /\ [][Next]_vars

(***************************************************************************)
(* Fairness.  The Go scheduler runs every runnable goroutine: a step of a  *)
(* goroutine that stays possible is taken (WF).  A select whose cases are  *)
(* both ready takes one at random, so the done case of the loop of         *)
(* startPeriodicFetching, ready at every turn of the loop once done is     *)
(* closed, is taken in the end (SF).  That the MetricSet's Run and Fetch   *)
(* return when no report call keeps them is assumed of the MetricSet code. *)
(* Nothing is assumed of the caller: it need not receive from out, and of  *)
(* time: the timers need not fire.                                         *)
(***************************************************************************)
Fairness ==
    /\ \A w \in Workers :
          /\ WF_vars(WorkerBegin(w))
          /\ WF_vars(DelayDone(w))
          /\ WF_vars(DelayElapsed(w))
          /\ WF_vars(PushReturn(w))
          /\ WF_vars(FetchReturn(w))
          /\ WF_vars(Degrade(w))
          /\ WF_vars(WriteAbandon(w))
          /\ WF_vars(EventsAdd(w))
          /\ SF_vars(LoopDone(w))
          /\ WF_vars(WgDone(w))
          /\ WF_vars(ReleaseStats(w))
    /\ \A u \in Units : WF_vars(Supervisor(u))

FairSpec == Spec /\ Fairness

(***************************************************************************)
(* Properties.                                                             *)
(***************************************************************************)
\* The worker goroutine has returned from run and has called wg.Done().
Finished(w) == pc[w] \in {"wgdone", "exit"}

\* C1: out is closed at most once (a second close would panic), by the
\* goroutine that waits for the WaitGroup and by nobody else; when it is
\* closed every worker of the Wrapper has returned from run (and has called
\* wg.Done()), so no worker is inside a report call and none can send on the
\* closed channel.
C1_ClosedOnceAfterRuns ==
    /\ ~crashed
    /\ \A u \in Units :
          /\ closed[u] <= 1
          /\ (closed[u] = 1) <=> (sup[u] = "done")
          /\ closed[u] > 0 =>
                \A w \in metricSets(u) : Finished(w) /\ call[w] = "idle"

\* Out of a Wrapper with two workers is closed after events were reported.
C1_Witness ==
    \E u \in Units :
        closed[u] = 1 /\ Cardinality(metricSets(u)) >= 2 /\ nreports > 0

\* C2: once done of a started Wrapper is closed, every worker of the
\* Wrapper ends (its goroutine exits) and out is closed, whether or not
\* anything is received from out and whether or not a timer fires.
C2_DoneStopsAll ==
    \A u \in Units :
        done[u] ~> (closed[u] = 1 /\ \A w \in metricSets(u) : pc[w] = "exit")

\* done is closed, all workers of a Wrapper of two have exited and out is
\* closed, while out still holds an event that nobody received.
C2_Witness ==
    \E u \in Units :
        /\ done[u] /\ closed[u] = 1 /\ Len(out[u]) = OutCap
        /\ Cardinality(metricSets(u)) >= 2
        /\ \A w \in metricSets(u) : pc[w] = "exit"

\* The workers that have taken the stats of key and not released them.
Unreleased(key) ==
    {w \in Workers : owner[w] \in Units /\ ~(pc[w] \in {"new", "exit"}) /\ keyOf(w) = key}
\* The stats objects of key that something refers to.
LiveEntries(key) ==
    {o \in ObjIds : Reachable(fetches, handle, o) /\ heap[o].key = key}

\* C3: fetches has an entry for a key exactly when some acquisition of the
\* key is unreleased; the ref of the entry is the number of unreleased
\* acquisitions; every holder holds the entry of the map, which is the only
\* live stats object of the key; so after N acquisitions and N releases
\* there is no entry.
C3_RegistryCounts ==
    \A key \in Keys :
        /\ (fetches[key] # Nil) <=> (Cardinality(Unreleased(key)) > 0)
        /\ fetches[key] # Nil =>
              /\ heap[fetches[key]].ref = U32(Cardinality(Unreleased(key)))
              /\ heap[fetches[key]].key = key
        /\ \A w \in Unreleased(key) : handle[w] = fetches[key]
        /\ Cardinality(LiveEntries(key)) <= 1
        /\ LiveEntries(key) \subseteq {fetches[key]}

\* Two workers took the stats of one key and both released them: no entry.
C3_Witness ==
    \E w \in Workers : \E v \in Workers :
        /\ w # v /\ pc[w] = "exit" /\ pc[v] = "exit"
        /\ keyOf(w) = keyOf(v)
        /\ fetches[keyOf(w)] = Nil

\* C4, as the specification states it: at the end of a polling fetch cycle
\* the cycle has incremented failures by exactly 1 and success not at all
\* when Fetch returned an error, and success by exactly 1 and failures not
\* at all when Fetch returned no error, whatever the MetricSet reported.
C4_OnePerCycle ==
    \A w \in Workers :
        pc[w] = "loop" =>
            /\ lastErr[w] = "err" => cyc[w].f = 1 /\ cyc[w].s = 0
            /\ lastErr[w] = "nil" => cyc[w].s = 1 /\ cyc[w].f = 0

\* C4, amended: the counters count reported events.  During and at the end
\* of a polling fetch cycle the cycle has incremented success once per event
\* without error that the MetricSet reported, and failures once per error
\* that it reported, plus once when Fetch returned an error (which msw.fetch
\* reports); a Fetch that returns no error adds nothing.
C4_OnePerEvent ==
    \A w \in Workers :
        pc[w] \in {"fetch", "fetcherr", "loop"} =>
            /\ cyc[w].s = cyc[w].evOk
            /\ cyc[w].f = cyc[w].evErr + (IF lastErr[w] = "err" THEN 1 ELSE 0)
            /\ lastErr[w] = "nil" => cyc[w].f = cyc[w].evErr

\* A cycle whose Fetch returned an error after reporting an event without
\* error: both counters were incremented.
C4_Witness ==
    \E w \in Workers :
        pc[w] = "loop" /\ lastErr[w] = "err" /\ cyc[w].evOk = 1 /\ cyc[w].s = 1 /\ cyc[w].f = 1

\* The events counter of the stats of worker w.
Published(w) == heap[handle[w]].events

\* C5: events of a stats object changes only by an increment of exactly 1,
\* made by a report call that has placed its event on out and then returns
\* accepted; a call that has placed its event always does so; the event is
\* placed by appending it to out, and out grows in no other way; a call
\* that returns not accepted has left out and every events counter as they
\* were.
C5_PublishedIffPlaced ==
    [][/\ heap' # heap =>
             \A o \in ObjIds :
                 (heap'[o].key = heap[o].key /\ heap'[o].events # heap[o].events) =>
                     /\ heap'[o].events = heap[o].events + 1
                     /\ \E w \in Workers :
                            handle[w] = o /\ call[w] = "wrote" /\ call'[w] = "idle"
       /\ \A w \in Workers :
             /\ (call[w] = "wrote" /\ call'[w] # "wrote") =>
                   /\ call'[w] = "idle"
                   /\ handle'[w] = handle[w]
                   /\ heap'[handle[w]].events = Published(w) + 1
             /\ (call[w] # "wrote" /\ call'[w] = "wrote") =>
                   /\ call[w] = "write"
                   /\ out'[owner[w]] = Append(out[owner[w]], pending[w])
             /\ (call[w] = "write" /\ call'[w] = "idle") =>
                   /\ out' = out
                   /\ \A o \in ObjIds : heap'[o].events = heap[o].events
       /\ \A u \in Units :
             Len(out'[u]) > Len(out[u]) =>
                 \E w \in metricSets(u) : call[w] = "write" /\ call'[w] = "wrote"
      ]_vars

\* A worker with stats of its own made two report calls, one accepted and
\* one not, and the accepted event has been received.
C5_Witness ==
    \E w \in Workers :
        /\ handle[w] # Nil /\ heap[handle[w]].ref = U32(1)
        /\ call[w] = "idle" /\ reported[w] = 2 /\ Published(w) = 1
        /\ out[owner[w]] = <<>>

\* C6, as the specification states it: a write that has not completed
\* when done is closed never places its event.
C6_NeverPlacedOnceDone ==
    [][\A w \in Workers :
          (call[w] = "write" /\ done[owner[w]]) => call'[w] # "wrote"]_vars

\* C6, amended: while done is closed and out is full a write does not place
\* its event (its only step is to return false); a write returns false
\* only when done is closed, and then out and the events counter are as
\* before.  With done closed and room in out the select takes either case.
C6_AbandonedWhenFull ==
    [][\A w \in Workers :
          /\ (call[w] = "write" /\ done[owner[w]] /\ Len(out[owner[w]]) >= OutCap) =>
                call'[w] \in {"write", "idle"}
          /\ (call[w] = "write" /\ call'[w] = "idle") =>
                /\ done[owner[w]]
                /\ out'[owner[w]] = out[owner[w]]
                /\ handle'[w] = handle[w]
                /\ heap'[handle[w]].events = Published(w)]_vars

\* done is closed and out still holds the one event that the worker
\* placed: its other report call was abandoned on the full channel.
C6_Witness ==
    \E w \in Workers :
        /\ handle[w] # Nil /\ heap[handle[w]].ref = U32(1)
        /\ done[owner[w]] /\ call[w] = "idle"
        /\ reported[w] = 2 /\ Published(w) = 1
        /\ Len(out[owner[w]]) = OutCap /\ out[owner[w]][1].src = w

\* The events of Wrapper u that a report call is writing or that out holds.
EventsOf(u) ==
    {out[u][i] : i \in 1..Len(out[u])}
        \cup {pending[w] : w \in {v \in metricSets(u) : call[v] # "idle"}}

C8_NoWorkAfterDelayCut ==
    /\ [](\A w \in Workers :
             (pc[w] \in {"created", "spawned", "delay"} \/ ended[w] = "delay") =>
                 ~tstart[w] /\ nrun[w] = 0 /\ reported[w] = 0 /\ ~periodic[w])
    /\ [][\A w \in Workers :
             (pc[w] = "delay" /\ done[owner[w]] /\ ~elapsed[w]) =>
                 /\ ~elapsed'[w]
                 /\ pc'[w] # pc[w] => (pc'[w] = "closed" /\ ended'[w] = "delay")]_vars

\* The run of a polled MetricSet has ended in the start delay.
C8_Witness ==
    \E w \in Workers :
        /\ kind[w] \in FetchKinds
        /\ ended[w] = "delay" /\ pc[w] = "wgdone" /\ ~elapsed[w]

CycleStatus(w) == IF lastErr[w] = "err" THEN <<"degraded">> ELSE <<"running">>

\* Starting is notified once per worker, before run: before any fetch or Run.
StartingOnce ==
    \A w \in Workers :
        IF pc[w] \in {"new", "created", "spawned"}
        THEN nStarting[w] = 0 /\ ~tstart[w] /\ nrun[w] = 0
        ELSE nStarting[w] = 1

\* C10, as the specification states it: Starting once per worker before
\* its first fetch, and after every fetch cycle of every polled MetricSet
\* exactly one UpdateStatus: Running when Fetch succeeded, Degraded when it
\* failed.
C10_StatusEveryVariant ==
    /\ StartingOnce
    /\ \A w \in Workers : pc[w] = "loop" => cycleNotes[w] = CycleStatus(w)

\* C10, amended: Starting once per worker before its first fetch; after
\* every fetch cycle of a ReportingMetricSetV2Error or
\* ReportingMetricSetV2WithContext exactly one UpdateStatus, Running or
\* Degraded by what Fetch returned; after a fetch cycle of a
\* ReportingMetricSet or ReportingMetricSetV2, whose Fetch returns nothing,
\* none; and none while the fetch is going on.
C10_StatusErrVariants ==
    /\ StartingOnce
    /\ \A w \in Workers :
          /\ pc[w] = "loop" =>
                cycleNotes[w] = (IF kind[w] \in ErrKinds THEN CycleStatus(w) ELSE <<>>)
          /\ pc[w] \in {"fetch", "fetcherr"} => cycleNotes[w] = <<>>

\* A fetch cycle that ended with Degraded, of a worker notified Starting once.
C10_Witness ==
    \E w \in Workers :
        pc[w] = "loop" /\ cycleNotes[w] = <<"degraded">> /\ nStarting[w] = 1

\* C11: every event that a report call writes or that out holds has a
\* non-zero timestamp; an event given with a timestamp keeps it; an event
\* given without one gets, from a polled MetricSet, the start of the fetch
\* (start, set by the last StartFetchTimer: non-zero in every fetch, not
\* later than the call) and, from a push MetricSet, whose start is zero, the
\* time of the call.
C11_TimestampFilled ==
    /\ \A w \in Workers :
          /\ tstart[w] <=> (start[w] # ZeroTime)
          /\ start[w] <= now
          /\ pc[w] \in {"fetch", "fetcherr"} => start[w] # ZeroTime
          /\ kind[w] \in PushKinds => start[w] = ZeroTime
          /\ (call[w] # "idle" /\ pending[w].given = ZeroTime) =>
                pending[w].ts = (IF kind[w] \in FetchKinds THEN start[w] ELSE pending[w].at)
    /\ \A u \in Units : \A e \in EventsOf(u) :
          /\ e.ts # ZeroTime
          /\ e.given # ZeroTime => e.ts = e.given
          /\ e.given = ZeroTime =>
                IF kind[e.src] \in FetchKinds THEN e.ts <= e.at ELSE e.ts = e.at

\* A polled MetricSet reports an event without timestamp after the clock
\* has moved on since the fetch began: the event written has the time of
\* the start of the fetch, not that of the call.
C11_Witness ==
    \E w \in Workers :
        /\ kind[w] \in FetchKinds /\ call[w] = "write"
        /\ pending[w].given = ZeroTime
        /\ pending[w].ts = start[w] /\ pending[w].ts < pending[w].at

\* C12: out never holds more than its one slot, so the events sent are at
\* most the events received plus 1; and a worker whose report call is in
\* writeEvent while out is full and done is not closed stays in that call:
\* no step takes it out of writeEvent, whatever the step does.
C12_OneSlotBackpressure ==
    /\ [](\A u \in Units : Len(out[u]) <= OutCap)
    /\ [][\A w \in Workers :
             (call[w] = "write" /\ Len(out[owner[w]]) >= OutCap /\ ~done[owner[w]]) =>
                 /\ call'[w] = "write"
                 /\ pc'[w] = pc[w]
                 /\ pending'[w] = pending[w]]_vars

\* out holds the event of one worker while another worker of the Wrapper
\* is in writeEvent and done is not closed.
C12_Witness ==
    \E w \in Workers : \E v \in Workers :
        /\ w # v /\ owner[w] = owner[v]
        /\ call[w] = "write" /\ ~done[owner[w]]
        /\ Len(out[owner[w]]) = OutCap /\ out[owner[w]][1].src = v

\* run has returned.
Returned(w) == pc[w] \in {"closed", "wgdone", "exit"}

\* C13, as the specification states it, in its last part: once done is
\* closed no fetch begins.
C13_NoFetchOnceDone ==
    [][\A w \in Workers :
          (owner[w] \in Units /\ done[owner[w]]) =>
              ~(pc[w] # "fetch" /\ pc'[w] = "fetch")]_vars

\* C13, amended: the step that enters startPeriodicFetching begins a
\* fetch; a fetch begins in no other way than that and a tick taken in the
\* loop, one fetch per tick; the loop is left only for the fetch of a tick
\* or, when done is closed, by returning; after run has returned no fetch
\* begins.  (With done closed the first fetch and the fetch of a tick that
\* is ready can still begin.)
C13_FetchOnEntryAndTicks ==
    [][\A w \in Workers :
          /\ (~periodic[w] /\ periodic'[w]) => (pc'[w] = "fetch" /\ tstart'[w])
          /\ (pc[w] # "fetch" /\ pc'[w] = "fetch") =>
                \/ ~periodic[w] /\ periodic'[w] /\ ~tstart[w]
                \/ pc[w] = "loop" /\ periodic[w]
          /\ (pc[w] = "loop" /\ pc'[w] # "loop") =>
                \/ pc'[w] = "fetch"
                \/ done[owner[w]] /\ pc'[w] = "closed" /\ ended'[w] = "loop"
          /\ Returned(w) => Returned(w)']_vars

\* A worker is in a fetch begun by a tick, after a cycle in which an event
\* was reported, and done is closed.
C13_Witness ==
    \E w \in Workers :
        /\ pc[w] = "fetch" /\ call[w] = "idle" /\ done[owner[w]]
        /\ reported[w] >= 1 /\ cyc[w] = NoCycle

\* C14: when Fetch returns an error, msw.fetch reports it as an event that
\* carries an error; the worker then goes on to the loop's select and
\* nowhere else; in the loop after such a cycle, as after any, the fetch of
\* the next tick can be taken, and while done is not closed the worker
\* leaves the select only for that fetch.
C14_ErrorKeepsLoop ==
    /\ [](\A w \in Workers :
             /\ pc[w] = "fetcherr" => (lastErr[w] = "err" /\ periodic[w])
             /\ (pc[w] = "fetcherr" /\ call[w] # "idle") =>
                   (pending[w].error /\ pending[w].src = w)
             /\ (pc[w] = "loop" /\ lastErr[w] = "err") => ENABLED Tick(w))
    /\ [][\A w \in Workers :
             /\ (pc[w] = "fetch" /\ lastErr'[w] = "err") =>
                   /\ pc'[w] = "fetcherr" /\ call'[w] = "write"
                   /\ pending'[w].error
             /\ pc[w] = "fetcherr" => pc'[w] \in {"fetcherr", "loop"}
             /\ (pc[w] = "loop" /\ lastErr[w] = "err" /\ ~done[owner[w]]) =>
                   pc'[w] \in {"loop", "fetch"}]_vars

\* After a cycle whose Fetch returned an error the worker is at the loop's
\* select, done is not closed, and out holds the event with the error.
C14_Witness ==
    \E w \in Workers :
        /\ pc[w] = "loop" /\ lastErr[w] = "err" /\ ~done[owner[w]]
        /\ Len(out[owner[w]]) = 1
        /\ out[owner[w]][1].src = w /\ out[owner[w]][1].error

\* C15: Close of a MetricSet that is an mb.Closer has been called exactly
\* once when the worker's run has returned, however it ended, and not at
\* all before; Close is not called for other MetricSets; when out is closed,
\* Close of every mb.Closer of the Wrapper has been called.
C15_CloseOnceAfterRun ==
    /\ \A w \in Workers :
          closeCalls[w] = (IF closer[w] /\ Returned(w) THEN 1 ELSE 0)
    /\ \A w \in Workers :
          ended[w] \in {"delay", "loop", "push", "none", "panic"} =>
              (Returned(w) /\ (closer[w] => closeCalls[w] = 1))
    /\ \A u \in Units :
          closed[u] > 0 => \A w \in metricSets(u) : closer[w] => closeCalls[w] = 1

\* out is closed; the run of an mb.Closer of the Wrapper was cut in the
\* start delay, and its Close has been called once.
C15_Witness ==
    \E w \in Workers :
        /\ closer[w] /\ ended[w] = "delay" /\ closeCalls[w] = 1
        /\ closed[owner[w]] = 1

\* C16, as the specification states it: when out is closed no worker of
\* the Wrapper holds its stats any more.
C16_ReleasedBeforeClose ==
    \A u \in Units :
        closed[u] > 0 => \A w \in metricSets(u) : handle[w] = Nil

\* C16, amended: when out is closed every worker of the Wrapper has
\* returned from run and has called wg.Done(); what can remain of it is
\* the deferred releaseStats, which is then ready to run: a worker holds its
\* stats exactly until that call.
C16_DoneBeforeClose ==
    /\ \A u \in Units :
          closed[u] > 0 =>
              \A w \in metricSets(u) :
                  /\ Finished(w)
                  /\ handle[w] # Nil => (pc[w] = "wgdone" /\ ENABLED ReleaseStats(w))
    /\ \A w \in Workers :
          (handle[w] = Nil) <=> (pc[w] \in {"new", "exit"})

\* out is closed while a worker of the Wrapper has not yet released its
\* stats.
C16_Witness ==
    \E w \in Workers :
        /\ owner[w] \in Units /\ closed[owner[w]] = 1
        /\ pc[w] = "wgdone" /\ handle[w] # Nil
        /\ fetches[keyOf(w)] = handle[w]

\* C17: a worker whose MetricSet takes the default case of run's type
\* switch begins no fetch, calls no Run and reports nothing; it gets to the
\* end of run by steps that do not wait for done (the start of the
\* goroutine and, with a start delay, the timer), and its only way on is to
\* return; nothing panics; the step in which it returns changes nothing of
\* the other workers, of out, done and the WaitGroup; out is closed only
\* when all workers of the Wrapper have finished.
C17_DefaultCaseReturns ==
    /\ [](/\ ~crashed
          /\ \A w \in Workers :
                (owner[w] \in Units /\ kind[w] = "None") =>
                    /\ ~tstart[w] /\ ~periodic[w] /\ nrun[w] = 0 /\ reported[w] = 0
                    /\ call[w] = "idle"
                    /\ ~(pc[w] \in {"push", "fetch", "fetcherr", "loop"})
                    /\ pc[w] = "spawned" => ENABLED WorkerBegin(w)
                    /\ (pc[w] = "delay" /\ elapsed[w]) => ENABLED DelayElapsed(w)
          /\ \A u \in Units :
                closed[u] > 0 => \A w \in metricSets(u) : Finished(w))
    /\ [][\A w \in Workers :
             /\ (kind[w] = "None" /\ pc[w] \in {"spawned", "delay"} /\ pc'[w] # pc[w]) =>
                   \/ pc[w] = "spawned" /\ pc'[w] = "delay"
                   \/ pc'[w] = "closed" /\ ended'[w] \in {"none", "delay"}
             /\ (ended[w] # "none" /\ ended'[w] = "none") =>
                   /\ \A v \in Workers \ {w} :
                         /\ pc'[v] = pc[v] /\ call'[v] = call[v]
                         /\ pending'[v] = pending[v]
                   /\ unitVars' = unitVars
                   /\ statsVars' = statsVars]_vars

\* A worker of the default case has returned and called wg.Done() while
\* done is not closed; another worker of its Wrapper is in a fetch and has
\* just placed an event on out, which is not closed.
C17_Witness ==
    \E w \in Workers : \E v \in Workers :
        /\ w # v /\ owner[w] = owner[v]
        /\ kind[w] = "None" /\ ended[w] = "none" /\ pc[w] = "wgdone"
        /\ ~done[owner[w]] /\ closed[owner[w]] = 0
        /\ pc[v] = "fetch" /\ call[v] = "wrote"

\* The three counters of a stats object.
Counters(st) == <<st.success, st.failures, st.events>>

\* C18: while fetches has an entry for a key it is the same stats object,
\* and none of its counters decreases; a worker that takes the stats of a
\* key that has an entry gets that object, its counters as they were and
\* its ref one higher, whatever Wrapper the worker belongs to; one that
\* takes the stats of a key without entry gets a new object with ref 1 and
\* all counters zero, which becomes the entry; an entry is removed only by
\* the release of its last holder.
C18_SharedUntilLastRelease ==
    [][/\ \A key \in Keys :
             /\ (fetches[key] # Nil /\ fetches'[key] # Nil) =>
                   /\ fetches'[key] = fetches[key]
                   /\ heap'[fetches[key]].success >= heap[fetches[key]].success
                   /\ heap'[fetches[key]].failures >= heap[fetches[key]].failures
                   /\ heap'[fetches[key]].events >= heap[fetches[key]].events
             /\ (fetches[key] # Nil /\ fetches'[key] = Nil) =>
                   /\ heap[fetches[key]].ref = U32(1)
                   /\ \E w \in Unreleased(key) :
                          /\ Unreleased(key) = {w}
                          /\ handle[w] = fetches[key] /\ handle'[w] = Nil
       /\ \A w \in Workers :
             (handle[w] = Nil /\ handle'[w] # Nil) =>
                 /\ fetches'[keyOf(w)] = handle'[w]
                 /\ IF fetches[keyOf(w)] # Nil
                    THEN /\ handle'[w] = fetches[keyOf(w)]
                         /\ Counters(heap'[handle'[w]]) = Counters(heap[handle'[w]])
                         /\ heap'[handle'[w]].ref = U32Inc(heap[handle'[w]].ref)
                    ELSE heap'[handle'[w]] = NewStats(keyOf(w))
      ]_vars

\* Workers of two Wrappers hold the same stats object, whose counters are
\* not zero, and one of them has not started yet.
C18_Witness ==
    \E w \in Workers : \E v \in Workers :
        /\ owner[w] \in Units /\ owner[v] \in Units /\ owner[w] # owner[v]
        /\ handle[w] # Nil /\ handle[w] = handle[v]
        /\ heap[handle[w]].ref = U32(2)
        /\ pc[v] = "created"
        /\ heap[handle[w]].success + heap[handle[w]].failures >= 1
        /\ heap[handle[w]].events >= 1

\* C19: the context of a worker never has a deadline, its Done() is the
\* done channel of the worker's Wrapper, its Err() is nil in every state
\* where that channel is open and context.Canceled in every state where it
\* is closed; and once Err() is context.Canceled it stays so.
C19_ErrFollowsDone ==
    /\ [](\A w \in Workers : HasContext(w) =>
             LET r == channelContext(w)
             IN /\ ~channelContextDeadline(r).ok
                /\ channelContextDeadline(r).deadline = ZeroTime
                /\ channelContextDone(r) = owner[w]
                /\ ~done[owner[w]] => channelContextErr(r) = "nil"
                /\ done[owner[w]] => channelContextErr(r) = "context.Canceled")
    /\ [][\A w \in Workers : owner[w] \in Units =>
             (channelContextErr(channelContext(w)) = "context.Canceled" =>
              channelContextErr(channelContext(w))' = "context.Canceled")]_vars

\* A MetricSet that was given a context is running, with the done channel
\* closed and Err() giving context.Canceled.
C19_Witness ==
    \E w \in Workers :
        /\ HasContext(w)
        /\ kind[w] \in {"PushMetricSetV2WithContext", "ReportingMetricSetV2WithContext"}
        /\ InCollector(w)
        /\ done[owner[w]]
        /\ channelContextErr(channelContext(w)) = "context.Canceled"

\* The workers inside writeEvent, or between writeEvent and events.Add, on
\* the stats object o.
InWrite(o) == {w \in Workers : handle[w] = o /\ call[w] \in {"write", "wrote"}}

\* C20: for every stats object events <= success + failures, with one
\* more on the right for every report that is counted and not yet written
\* or given up; a report adds one to success when the event has no error
\* and one to failures when it has one, and nothing to events, before
\* writeEvent; writeEvent itself changes no counter; a report whose write
\* was given up because done is closed adds nothing more; a report whose
\* event was placed adds one to events and nothing else.
C20_EventsAtMostCounted ==
    /\ [](\A o \in ObjIds :
             heap[o].events + Cardinality(InWrite(o))
                 <= heap[o].success + heap[o].failures)
    /\ [][\A w \in Workers :
             /\ (call[w] = "idle" /\ call'[w] = "write") =>
                   /\ heap'[handle[w]].success =
                        heap[handle[w]].success + (IF pending'[w].error THEN 0 ELSE 1)
                   /\ heap'[handle[w]].failures =
                        heap[handle[w]].failures + (IF pending'[w].error THEN 1 ELSE 0)
                   /\ heap'[handle[w]].events = heap[handle[w]].events
             /\ (call[w] = "write" /\ call'[w] = "wrote") => heap' = heap
             /\ (call[w] = "write" /\ call'[w] = "idle") =>
                   /\ done[owner[w]]
                   /\ heap' = heap
             /\ (call[w] = "wrote" /\ call'[w] = "idle") =>
                   Counters(heap'[handle[w]]) =
                       <<heap[handle[w]].success, heap[handle[w]].failures,
                         heap[handle[w]].events + 1>>
      ]_vars

\* A worker's only report was given up at the closed done channel: it is
\* counted as a success or a failure and not as published.
C20_Witness ==
    \E w \in Workers :
        /\ handle[w] # Nil
        /\ reported[w] = 1
        /\ call[w] = "idle"
        /\ done[owner[w]]
        /\ InWrite(handle[w]) = {}
        /\ heap[handle[w]].events = 0
        /\ heap[handle[w]].success + heap[handle[w]].failures = 1

====
